---------------------------- MODULE Spec2Model ----------------------------
(***************************************************************************)
(* Account REST service (service/routes.py): the request handlers, the     *)
(* validator and the persistence mapping they drive.                       *)
(*                                                                         *)
(* Text is a sequence of one-character strings (ASCII and Latin-1), so     *)
(* that the pattern match works on characters and the date parser on the   *)
(* UTF-8 bytes, as the code's library calls do.                            *)
(* A JSON value is a record [t, s, n]: t is its type ("absent" for a key   *)
(* the object does not hold), s its text when a string, n its number.      *)
(* service/models.py (Account, db) and the error handlers are not part of  *)
(* the sources at hand; their operators follow the written specification.  *)
(***************************************************************************)
EXTENDS Integers, Sequences, FiniteSets, TLC

(***************************************************************************)
(* JSON values                                                             *)
(***************************************************************************)
Absent == [t |-> "absent", s |-> <<>>, n |-> 0]
Null == [t |-> "null", s |-> <<>>, n |-> 0]
Str(chars) == [t |-> "str", s |-> chars, n |-> 0]
Num(k) == [t |-> "num", s |-> <<>>, n |-> k]

\* isinstance(v, str)
IsStr(v) == v.t = "str"

\* key in account_data
Has(data, key) == data[key].t # "absent"

\* account_data.get(key): None for a missing key
Get(data, key) == IF Has(data, key) THEN data[key] ELSE Null

(***************************************************************************)
(* Characters                                                              *)
(***************************************************************************)
DigitChars == {"0", "1", "2", "3", "4", "5", "6", "7", "8", "9"}

\* The characters from U+0080 to U+00FF in code point order: the C1 controls,
\* the no-break space, and the Latin-1 signs and letters
Latin1 ==
    << "", "", "", "", "", "", "", "", "", "", "", "", "",
       "", "", "", "", "", "", "", "", "", "", "", "", "",
       "", "", "", "", "", "", " ", "¡", "¢", "£", "¤", "¥", "¦",
       "§", "¨", "©", "ª", "«", "¬", "­", "®", "¯", "°", "±", "²", "³",
       "´", "µ", "¶", "·", "¸", "¹", "º", "»", "¼", "½", "¾", "¿", "À",
       "Á", "Â", "Ã", "Ä", "Å", "Æ", "Ç", "È", "É", "Ê", "Ë", "Ì", "Í",
       "Î", "Ï", "Ð", "Ñ", "Ò", "Ó", "Ô", "Õ", "Ö", "×", "Ø", "Ù", "Ú",
       "Û", "Ü", "Ý", "Þ", "ß", "à", "á", "â", "ã", "ä", "å", "æ", "ç",
       "è", "é", "ê", "ë", "ì", "í", "î", "ï", "ð", "ñ", "ò", "ó", "ô",
       "õ", "ö", "÷", "ø", "ù", "ú", "û", "ü", "ý", "þ", "ÿ" >>

\* The Latin-1 letters (str.isalpha): all of U+00C0..U+00FF but the
\* multiplication and division signs, and the ordinal indicators and micro sign
Latin1Letters ==
    {"ª", "µ", "º", "À", "Á", "Â", "Ã", "Ä", "Å", "Æ", "Ç", "È", "É",
     "Ê", "Ë", "Ì", "Í", "Î", "Ï", "Ð", "Ñ", "Ò", "Ó", "Ô", "Õ", "Ö",
     "Ø", "Ù", "Ú", "Û", "Ü", "Ý", "Þ", "ß", "à", "á", "â", "ã", "ä",
     "å", "æ", "ç", "è", "é", "ê", "ë", "ì", "í", "î", "ï", "ð", "ñ",
     "ò", "ó", "ô", "õ", "ö", "ø", "ù", "ú", "û", "ü", "ý", "þ", "ÿ"}

\* The Latin-1 characters that are numeric without being decimal digits
Latin1Numerics == {"²", "³", "¹", "¼", "½", "¾"}

\* The letters: ASCII and Latin-1
LetterChars ==
    Latin1Letters \cup
    {"a", "b", "c", "d", "e", "f", "g", "h", "i", "j", "k", "l", "m",
     "n", "o", "p", "q", "r", "s", "t", "u", "v", "w", "x", "y", "z",
     "A", "B", "C", "D", "E", "F", "G", "H", "I", "J", "K", "L", "M",
     "N", "O", "P", "Q", "R", "S", "T", "U", "V", "W", "X", "Y", "Z"}

\* \w of a str pattern: the alphanumeric characters of Unicode and the underscore
IsWord(c) == c \in LetterChars \cup DigitChars \cup Latin1Numerics \cup {"_"}

\* [\w\.-] of the pattern
IsLocal(c) == IsWord(c) \/ c = "." \/ c = "-"

DigitVal(c) ==
    CASE c = "0" -> 0 [] c = "1" -> 1 [] c = "2" -> 2 [] c = "3" -> 3
      [] c = "4" -> 4 [] c = "5" -> 5 [] c = "6" -> 6 [] c = "7" -> 7
      [] c = "8" -> 8 [] c = "9" -> 9 [] OTHER -> 0

DigitChar(k) ==
    CASE k = 0 -> "0" [] k = 1 -> "1" [] k = 2 -> "2" [] k = 3 -> "3"
      [] k = 4 -> "4" [] k = 5 -> "5" [] k = 6 -> "6" [] k = 7 -> "7"
      [] k = 8 -> "8" [] OTHER -> "9"

\* The character at 1-based position i; past the end, the terminator.
CharAt(s, i) == IF i >= 1 /\ i <= Len(s) THEN s[i] ELSE "NUL"

\* ord(c) of a character from U+0080 to U+00FF
CodePoint(c) == 127 + CHOOSE i \in 1..Len(Latin1) : Latin1[i] = c

\* The UTF-8 encoding of a character: an ASCII character is its own byte, a
\* character from U+0080 to U+00FF is two bytes, each written as its decimal
\* value
utf8_char(c) ==
    IF \E i \in 1..Len(Latin1) : Latin1[i] = c
    THEN << ToString(192 + (CodePoint(c) \div 64)), ToString(128 + (CodePoint(c) % 64)) >>
    ELSE << c >>

\* PyUnicode_AsUTF8AndSize: the bytes of the text
RECURSIVE utf8(_)
utf8(s) == IF s = <<>> THEN <<>> ELSE utf8_char(Head(s)) \o utf8(Tail(s))

(***************************************************************************)
(* validate_email: re.match(r'^[\w\.-]+@[\w\.-]+\.\w+$', email).  The      *)
(* match is run as the set of pattern positions alive after each           *)
(* character:                                                              *)
(*   0 start            1 inside the first [\w\.-]+     2 after @          *)
(*   3 inside the second [\w\.-]+    4 after \.         5 inside \w+       *)
(* $ matches at the end of the text and just before a final newline.       *)
(***************************************************************************)
PatternStep(q, c) ==
    CASE q = 0 -> IF IsLocal(c) THEN {1} ELSE {}
      [] q = 1 -> (IF IsLocal(c) THEN {1} ELSE {}) \cup (IF c = "@" THEN {2} ELSE {})
      [] q = 2 -> IF IsLocal(c) THEN {3} ELSE {}
      [] q = 3 -> (IF IsLocal(c) THEN {3} ELSE {}) \cup (IF c = "." THEN {4} ELSE {})
      [] q = 4 -> IF IsWord(c) THEN {5} ELSE {}
      [] q = 5 -> IF IsWord(c) THEN {5} ELSE {}
      [] OTHER -> {}

RECURSIVE PatternRun(_, _, _)
PatternRun(s, i, alive) ==
    IF i > Len(s) THEN alive
    ELSE PatternRun(s, i + 1, UNION {PatternStep(q, s[i]) : q \in alive})

validate_email(email) ==
    \/ 5 \in PatternRun(email, 1, {0})
    \/ /\ Len(email) >= 1
       /\ email[Len(email)] = "\n"
       /\ 5 \in PatternRun(SubSeq(email, 1, Len(email) - 1), 1, {0})

(***************************************************************************)
(* datetime.date: the proleptic Gregorian calendar                         *)
(***************************************************************************)
MINYEAR == 1
MAXYEAR == 9999

is_leap(year) == year % 4 = 0 /\ (year % 100 # 0 \/ year % 400 = 0)

days_in_month(year, month) ==
    CASE month = 2 -> IF is_leap(year) THEN 29 ELSE 28
      [] month \in {4, 6, 9, 11} -> 30
      [] OTHER -> 31

RECURSIVE days_before_month(_, _)
days_before_month(year, month) ==
    IF month <= 1 THEN 0
    ELSE days_before_month(year, month - 1) + days_in_month(year, month - 1)

days_before_year(year) ==
    LET y == year - 1 IN y * 365 + (y \div 4) - (y \div 100) + (y \div 400)

ymd_to_ord(year, month, day) ==
    days_before_year(year) + days_before_month(year, month) + day

\* Monday is 0
weekday(year, month, day) == (ymd_to_ord(year, month, day) + 6) % 7

iso_week1_monday(year) ==
    LET first_day == ymd_to_ord(year, 1, 1)
        first_weekday == (first_day + 6) % 7
        week1_monday == first_day - first_weekday
    IN IF first_weekday > 3 THEN week1_monday + 7 ELSE week1_monday

RECURSIVE YearOfOrd(_, _)
YearOfOrd(ordinal, year) ==
    IF ordinal > days_before_year(year + 1) THEN YearOfOrd(ordinal, year + 1)
    ELSE year

RECURSIVE MonthOfOrd(_, _, _)
MonthOfOrd(n, year, month) ==
    IF month < 12 /\ n > days_before_month(year, month + 1)
    THEN MonthOfOrd(n, year, month + 1)
    ELSE month

\* ord_to_ymd, for an ordinal of year 1 or later
ord_to_ymd(ordinal) ==
    LET guess == ((ordinal - 1) \div 366) + 1
        year == YearOfOrd(ordinal, guess)
        n == ordinal - days_before_year(year)
        month == MonthOfOrd(n, year, 1)
    IN [y |-> year, m |-> month, d |-> n - days_before_month(year, month)]

NoDate == [y |-> 0, m |-> 0, d |-> 0]

\* The range checks of the date constructor
ValidDate(dt) ==
    /\ dt.y >= MINYEAR /\ dt.y <= MAXYEAR
    /\ dt.m >= 1 /\ dt.m <= 12
    /\ dt.d >= 1 /\ dt.d <= days_in_month(dt.y, dt.m)

\* parse_digits: the number in the k characters from position i, or -1
RECURSIVE parse_digits(_, _, _)
parse_digits(s, i, k) ==
    IF k = 0 THEN 0
    ELSE LET c == CharAt(s, i + k - 1)
             rest == parse_digits(s, i, k - 1)
         IN IF c \notin DigitChars \/ rest < 0 THEN -1
            ELSE rest * 10 + DigitVal(c)

\* iso_to_ymd: the date of day iso_day of week iso_week of iso_year, or NoDate
iso_to_ymd(iso_year, iso_week, iso_day) ==
    LET first_weekday == weekday(iso_year, 1, 1)
        week_ok ==
            \/ iso_week >= 1 /\ iso_week <= 52
            \/ /\ iso_week = 53
               /\ first_weekday = 3 \/ (first_weekday = 2 /\ is_leap(iso_year))
    IN IF iso_year < MINYEAR \/ ~week_ok \/ iso_day <= 0 \/ iso_day >= 8
       THEN NoDate
       ELSE ord_to_ymd(iso_week1_monday(iso_year) + (iso_week - 1) * 7 + iso_day - 1)

\* parse_isoformat_date: YYYY-MM-DD, YYYYMMDD, YYYY-Www[-D], YYYYWww[D]
parse_isoformat_date(s) ==
    LET year == parse_digits(s, 1, 4)
        uses_separator == CharAt(s, 5) = "-"
        p == IF uses_separator THEN 6 ELSE 5
    IN IF year < 0 THEN NoDate
       ELSE IF CharAt(s, p) = "W"
       THEN LET iso_week == parse_digits(s, p + 1, 2)
                q == p + 3
                more == q <= Len(s)
                sep_ok == ~uses_separator \/ CharAt(s, q) = "-"
                r == IF uses_separator THEN q + 1 ELSE q
                iso_day == IF more THEN parse_digits(s, r, 1) ELSE 1
            IN IF iso_week < 0 \/ (more /\ (~sep_ok \/ iso_day < 0)) THEN NoDate
               ELSE iso_to_ymd(year, iso_week, iso_day)
       ELSE LET month == parse_digits(s, p, 2)
                q == p + 2
                sep_ok == ~uses_separator \/ CharAt(s, q) = "-"
                r == IF uses_separator THEN q + 1 ELSE q
                day == parse_digits(s, r, 2)
            IN IF month < 0 \/ ~sep_ok \/ day < 0 THEN NoDate
               ELSE [y |-> year, m |-> month, d |-> day]

\* date.fromisoformat(v): the date, or the exception raised.  The length is
\* tested, and the text read, in UTF-8 bytes
fromisoformat(v) ==
    IF ~IsStr(v) THEN [exc |-> "TypeError", date |-> NoDate]
    ELSE LET dt_ptr == utf8(v.s)
             dt == IF Len(dt_ptr) \in {7, 8, 10} THEN parse_isoformat_date(dt_ptr)
                   ELSE NoDate
         IN IF ValidDate(dt) THEN [exc |-> "none", date |-> dt]
            ELSE [exc |-> "ValueError", date |-> NoDate]

\* date.isoformat(): YYYY-MM-DD, zero padded
isoformat(dt) ==
    << DigitChar(dt.y \div 1000), DigitChar((dt.y \div 100) % 10),
       DigitChar((dt.y \div 10) % 10), DigitChar(dt.y % 10), "-",
       DigitChar(dt.m \div 10), DigitChar(dt.m % 10), "-",
       DigitChar(dt.d \div 10), DigitChar(dt.d % 10) >>

(***************************************************************************)
(* validate_account_data: "true", "false", or the exception that escapes   *)
(***************************************************************************)
DateCheckCatching(data, caught) ==
    IF ~Has(data, "date_joined") THEN "true"
    ELSE LET r == fromisoformat(data["date_joined"])
         IN IF r.exc = "none" THEN "true"
            ELSE IF r.exc \in caught THEN "false"
            ELSE r.exc

\* The except clause without TypeError
validate_account_data_ValueErrorOnly(data) ==
    IF ~IsStr(Get(data, "name")) THEN "false"
    ELSE IF ~IsStr(Get(data, "email")) \/ ~validate_email(data["email"].s) THEN "false"
    ELSE IF ~IsStr(Get(data, "address")) THEN "false"
    ELSE IF Has(data, "phone_number") /\ ~IsStr(data["phone_number"]) THEN "false"
    ELSE DateCheckCatching(data, {"ValueError"})

validate_account_data(data) ==
    IF ~IsStr(Get(data, "name")) THEN "false"
    ELSE IF ~IsStr(Get(data, "email")) \/ ~validate_email(data["email"].s) THEN "false"
    ELSE IF ~IsStr(Get(data, "address")) THEN "false"
    ELSE IF Has(data, "phone_number") /\ ~IsStr(data["phone_number"]) THEN "false"
    ELSE DateCheckCatching(data, {"TypeError", "ValueError"})


(***************************************************************************)
(* Section 4.1 of the specification, rule by rule: what the validator is    *)
(* specified to decide                                                     *)
(***************************************************************************)
\* local@domain.tld: the text splits at an @ and at a later dot
SplitsAsEmail(s, n) ==
    \E i \in 2..n : \E j \in (i + 2)..(n - 1) :
        /\ s[i] = "@"
        /\ s[j] = "."
        /\ \A k \in 1..(i - 1) : IsLocal(s[k])
        /\ \A k \in (i + 1)..(j - 1) : IsLocal(s[k])
        /\ \A k \in (j + 1)..n : IsWord(s[k])

\* The pattern ^[\w.-]+@[\w.-]+\.\w+$ ($: the end, or before a closing line break)
MatchesPattern(s) ==
    \/ SplitsAsEmail(s, Len(s))
    \/ Len(s) >= 1 /\ s[Len(s)] = "\n" /\ SplitsAsEmail(s, Len(s) - 1)

\* The calendar date a YYYY-MM-DD text denotes, or NoDate
CalendarDate(s) ==
    IF /\ Len(s) = 10
       /\ s[5] = "-" /\ s[8] = "-"
       /\ \A k \in {1, 2, 3, 4, 6, 7, 9, 10} : s[k] \in DigitChars
    THEN LET dt == [y |-> 1000 * DigitVal(s[1]) + 100 * DigitVal(s[2])
                          + 10 * DigitVal(s[3]) + DigitVal(s[4]),
                    m |-> 10 * DigitVal(s[6]) + DigitVal(s[7]),
                    d |-> 10 * DigitVal(s[9]) + DigitVal(s[10])]
         IN IF ValidDate(dt) THEN dt ELSE NoDate
    ELSE NoDate

RuleName(data) == Has(data, "name") /\ IsStr(data["name"])
RuleEmail(data) ==
    Has(data, "email") /\ IsStr(data["email"]) /\ MatchesPattern(data["email"].s)
RuleAddress(data) == Has(data, "address") /\ IsStr(data["address"])
RulePhone(data) == Has(data, "phone_number") => IsStr(data["phone_number"])
RuleDate(data) ==
    Has(data, "date_joined") =>
        IsStr(data["date_joined"]) /\ CalendarDate(data["date_joined"].s) # NoDate

MeetsRules(data) ==
    RuleName(data) /\ RuleEmail(data) /\ RuleAddress(data) /\ RulePhone(data)
    /\ RuleDate(data)

(***************************************************************************)
(* Account (service/models.py): a row of the accounts table                *)
(***************************************************************************)
\* date.today(), the default of date_joined
Today == [y |-> 2026, m |-> 10, d |-> 30]

\* Account(): nothing set
NewAccount ==
    [name |-> Null, email |-> Null, address |-> Null, phone_number |-> Null,
     date_joined |-> NoDate]

\* The field assignments of Account.deserialize: the keys it knows, "id" and
\* unknown keys ignored, a missing optional key leaving the default
Populate(account, data) ==
    [account EXCEPT
        !.name = Get(data, "name"),
        !.email = Get(data, "email"),
        !.address = Get(data, "address"),
        !.phone_number = Get(data, "phone_number"),
        !.date_joined = IF Has(data, "date_joined") /\ IsStr(data["date_joined"])
                        THEN CalendarDate(data["date_joined"].s)
                        ELSE IF Has(data, "date_joined") THEN NoDate
                        ELSE Today]

\* The body has what the fields are populated from: the three required keys,
\* and under date_joined, when the key is there and not null, a YYYY-MM-DD
\* text, the inverse of how serialize renders the date
Populates(data) ==
    /\ Has(data, "name") /\ Has(data, "email") /\ Has(data, "address")
    /\ (Has(data, "date_joined") /\ data["date_joined"] # Null)
       => /\ IsStr(data["date_joined"])
          /\ CalendarDate(data["date_joined"].s) # NoDate

\* Account.deserialize(data): the fields populated from the matching keys
\* whatever their values, DataValidationError when a required key is missing
\* or date_joined cannot be read as a date.  It checks no rule of 4.1.
deserialize(account, data) ==
    IF Populates(data) THEN [error |-> FALSE, account |-> Populate(account, data)]
    ELSE [error |-> TRUE, account |-> account]

\* Account.serialize(): the JSON object of a row
serialize(id, account) ==
    [id |-> Num(id), name |-> account.name, email |-> account.email,
     address |-> account.address, phone_number |-> account.phone_number,
     date_joined |-> IF account.date_joined = NoDate THEN Null
                     ELSE Str(isoformat(account.date_joined))]

NoObject ==
    [id |-> Null, name |-> Null, email |-> Null, address |-> Null,
     phone_number |-> Null, date_joined |-> Null]

(***************************************************************************)
(* Bounds and the inputs the requests are drawn from                       *)
(***************************************************************************)
\* Accounts created in one run: the id sequence stops here
MaxAccounts == 2

\* Path ids a request may name: the ids the sequence assigns; an id is
\* unknown until a POST creates it and after a DELETE removes it
PathIds == 1..MaxAccounts

NoHeader == "no Content-Type header"
ContentTypes ==
    {NoHeader, "application/json", "text/html", "application/json; charset=utf-8"}

Body(id, name, email, address, phone_number, date_joined) ==
    [id |-> id, name |-> name, email |-> email, address |-> address,
     phone_number |-> phone_number, date_joined |-> date_joined]

Ann == Str(<<"A", "n", "n">>)
Bob == Str(<<"B", "o">>)
AnnMail == Str(<<"a", "@", "b", ".", "c">>)
BobMail == Str(<<"b", "-", ".", "@", "c", ".", ".", "d", "_">>)
LineMail == Str(<<"a", "@", "b", ".", "c", "\n">>)
BadMail == Str(<<"b", "a", "d">>)
NoDotMail == Str(<<"a", "@", "b">>)
Road == Str(<<"1", " ", "R", "d">>)
Lane == Str(<<"2", " ", "L", "n">>)
Phone == Str(<<"5", "5", "1">>)
LeapDay == Str(<<"2", "0", "2", "4", "-", "0", "2", "-", "2", "9">>)
YearEnd == Str(<<"2", "0", "2", "2", "-", "1", "2", "-", "3", "1">>)
NoSuchDay == Str(<<"2", "0", "2", "3", "-", "0", "2", "-", "3", "0">>)
ShortDate == Str(<<"2", "0", "2", "2", "-", "1", "-", "5">>)
BasicDate == Str(<<"2", "0", "2", "2", "1", "2", "3", "1">>)
PaddedDate == Str(<<"2", "0", "2", "2", "1", "2", "3", "1", "x", "x">>)
WeekDate == Str(<<"2", "0", "2", "2", "-", "W", "0", "1", "-", "1">>)

\* Bodies that meet every rule of 4.1.  The second differs from the first in
\* the email only, the third in the address, phone_number and date_joined
\* only, so that two PUT requests can each change columns the other keeps.
GoodBodies ==
    { Body(Absent, Ann, AnnMail, Road, Absent, Absent),
      Body(Absent, Ann, LineMail, Road, Absent, Absent),
      Body(Num(7), Ann, AnnMail, Lane, Phone, LeapDay) }

\* Bodies that break a rule of 4.1
BadBodies ==
    { Body(Absent, Num(1234), BadMail, Absent, Absent, Absent),
      Body(Absent, Ann, Absent, Absent, Absent, Absent),
      Body(Absent, Ann, NoDotMail, Road, Absent, Absent),
      Body(Absent, Num(1234), AnnMail, Road, Absent, Absent),
      Body(Absent, Bob, BobMail, Lane, Num(551), LeapDay),
      Body(Absent, Bob, BobMail, Lane, Phone, NoSuchDay),
      Body(Absent, Bob, BobMail, Lane, Phone, BasicDate),
      Body(Absent, Ann, AnnMail, Road, Absent, Num(20221231)) }

Bodies == GoodBodies \cup BadBodies

\* The bodies sent while two workers serve requests at once: accounts are
\* created with the first body of GoodBodies, a POST without email and
\* address is refused, and a PUT sends one of the other two or a body that
\* breaks a rule
ConcPosts ==
    { Body(Absent, Ann, AnnMail, Road, Absent, Absent),
      Body(Absent, Ann, Absent, Absent, Absent, Absent) }

ConcPuts ==
    { Body(Absent, Ann, LineMail, Road, Absent, Absent),
      Body(Num(7), Ann, AnnMail, Lane, Phone, LeapDay),
      Body(Absent, Num(1234), BadMail, Absent, Absent, Absent),
      Body(Absent, Ann, AnnMail, Road, Absent, Num(20221231)) }

(***************************************************************************)
(* State.  The service is served by several workers at once.  A request    *)
(* that reads the table and writes it later (PUT, DELETE) is a sequence of *)
(* steps, one per database round trip, and the steps of two workers        *)
(* interleave; a request that makes one round trip is one step.            *)
(***************************************************************************)
VARIABLES
    accounts,   \* the accounts table: id -> row
    next_id,    \* the next value of the table's id sequence
    request,    \* the request answered last
    response,   \* its response
    before,     \* the accounts table as the step that answered found it
    posted,     \* id -> the body that created it, until a PUT or DELETE on the id commits
    deleted,    \* the ids a DELETE has removed
    latest,     \* id -> the body of its 201 POST or latest 200 PUT, until its 204 DELETE
    raced,      \* the ids whose latest PUT commit came from a request that overlapped another
    workers,    \* per worker, the PUT or DELETE it is serving, with its session
    vdata,      \* a mapping handed to validate_account_data
    vresult     \* what the call returned or raised

vars ==
    <<accounts, next_id, request, response, before, posted, deleted, latest, raced,
      workers, vdata, vresult>>

NoBody == Body(Absent, Absent, Absent, Absent, Absent, Absent)

\* What a handler's lookup of the id met: found, the row was there; gone, a
\* DELETE had removed the id; overlap, another request on the same id was in
\* flight at some moment between this request's lookup and its answer
Lookup(found, gone, overlap) == [found |-> found, gone |-> gone, overlap |-> overlap]

NoLookup == Lookup(FALSE, FALSE, FALSE)

Request(method, id, content_type, data, lookup) ==
    [method |-> method, id |-> id, content_type |-> content_type, data |-> data,
     found |-> lookup.found, gone |-> lookup.gone, overlap |-> lookup.overlap]

\* A response: its status, and its body as one JSON object, a list of them,
\* an error message or nothing
Response(status, kind, object, list) ==
    [status |-> status, kind |-> kind, object |-> object, list |-> list]

Error(status) == Response(status, "error", NoObject, <<>>)

Without(f, id) == [i \in DOMAIN f \ {id} |-> f[i]]

With(f, id, v) == [i \in DOMAIN f \cup {id} |-> IF i = id THEN v ELSE f[i]]

\* The workers that serve requests at once
Workers == {"r1", "r2"}

\* A worker between requests.  While it serves a PUT that has passed its
\* checks its pc is "applied"; while it serves a DELETE, "found".
Idle ==
    [pc |-> "idle", id |-> 0, data |-> NoBody, loaded |-> NewAccount,
     account |-> NewAccount, gone |-> FALSE, overlap |-> FALSE]

\* The worker is serving a request on the id
OnRecord(v, id) == workers[v].pc # "idle" /\ workers[v].id = id

\* The worker that takes the next PUT or DELETE.  The workers are alike, so
\* the first one that is idle takes it; none is idle when this is "none".
FreeWorker ==
    IF workers["r1"].pc = "idle" THEN "r1"
    ELSE IF workers["r2"].pc = "idle" THEN "r2"
    ELSE "none"

\* An empty table, no request served yet
Started ==
    /\ accounts = <<>>
    /\ next_id = 1
    /\ request = Request("none", 0, NoHeader, NoBody, NoLookup)
    /\ response = Response(0, "none", NoObject, <<>>)
    /\ before = <<>>
    /\ posted = <<>>
    /\ deleted = {}
    /\ latest = <<>>
    /\ raced = {}
    /\ workers = [w \in Workers |-> Idle]

Init == Started /\ vdata = NoBody /\ vresult = "idle"

\* The handler answers: the request, its response, and the table it met
Served(req, resp) ==
    /\ request' = req
    /\ response' = resp
    /\ before' = accounts

(***************************************************************************)
(* Repository (service/models.py) and the session (SQLAlchemy on            *)
(* PostgreSQL, READ COMMITTED)                                             *)
(***************************************************************************)
\* Account.find(id), Account.query.get(id): whether the row exists
find(table, id) == id \in DOMAIN table

\* Account.create(): the row stored under the next id of the sequence
create(table, id, account) == With(table, id, account)

\* db.session.commit() with a changed row in the session: the unit of work
\* flushes one UPDATE that sets the columns whose value differs from the value
\* the session loaded, on the row as it is committed now
commit_update(table, id, loaded, account) ==
    [table EXCEPT ![id] =
        [col \in DOMAIN account |->
            IF account[col] # loaded[col] THEN account[col] ELSE table[id][col]]]

\* db.session.delete(account); db.session.commit(): the DELETE statement; it
\* matches no row when another request has deleted the row already, and the
\* session then warns and commits
commit_delete(table, id) == Without(table, id)

\* The session of the worker that starts on the row under id: the row as it
\* was loaded and as the request has changed it (a DELETE reads neither), and
\* the mark on every worker already serving a request on that id
Sessions(w, pc, id, data, loaded, account) ==
    [v \in Workers |->
        IF v = w
        THEN [pc |-> pc, id |-> id, data |-> data, loaded |-> loaded,
              account |-> account, gone |-> id \in deleted,
              overlap |-> \E u \in Workers \ {w} : OnRecord(u, id)]
        ELSE IF OnRecord(v, id) THEN [workers[v] EXCEPT !.overlap = TRUE]
        ELSE workers[v]]

\* The worker's request as it is answered
Answered(w, method) ==
    Request(method, workers[w].id,
            IF method = "PUT" THEN "application/json" ELSE NoHeader,
            workers[w].data, Lookup(TRUE, workers[w].gone, workers[w].overlap))

(***************************************************************************)
(* Request handlers (service/routes.py)                                    *)
(***************************************************************************)
\* A check that accepts any header that starts with the media type
check_content_type_Prefix(content_type, media_type) ==
    IF content_type \in {media_type, "application/json; charset=utf-8"} THEN 0 ELSE 415

\* check_content_type(media_type): 0 when it returns, else the status it aborts with
check_content_type(content_type, media_type) ==
    IF content_type # NoHeader /\ content_type # "" /\ content_type = media_type
    THEN 0
    ELSE 415

\* POST /accounts
create_accounts(content_type, data) ==
    LET checked == check_content_type(content_type, "application/json")
        read == deserialize(NewAccount, data)
    IN /\ UNCHANGED <<workers, raced, deleted, vdata, vresult>>
       /\ IF checked # 0
          THEN /\ Served(Request("POST", 0, content_type, data, NoLookup), Error(checked))
               /\ UNCHANGED <<accounts, next_id, posted, latest>>
          ELSE IF read.error
          THEN /\ Served(Request("POST", 0, content_type, data, NoLookup), Error(400))
               /\ UNCHANGED <<accounts, next_id, posted, latest>>
          ELSE /\ next_id <= MaxAccounts
               /\ accounts' = create(accounts, next_id, read.account)
               /\ next_id' = next_id + 1
               /\ posted' = With(posted, next_id, data)
               /\ latest' = With(latest, next_id, data)
               /\ Served(Request("POST", 0, content_type, data, NoLookup),
                         Response(201, "object", serialize(next_id, read.account), <<>>))

\* The first row of the query left out of the response
list_accounts_SkipsFirst(order) ==
    /\ Len(order) = Cardinality(DOMAIN accounts)
    /\ {order[k] : k \in 1..Len(order)} = DOMAIN accounts
    /\ Served(Request("LIST", 0, NoHeader, NoBody, NoLookup),
              Response(200, "list", NoObject,
                       [k \in 1..(Len(order) - 1) |->
                           serialize(order[k + 1], accounts[order[k + 1]])]))
    /\ UNCHANGED <<accounts, next_id, posted, deleted, latest, raced, workers,
                   vdata, vresult>>

\* GET /accounts: the rows in the order the query returns them
list_accounts(order) ==
    /\ Len(order) = Cardinality(DOMAIN accounts)
    /\ {order[k] : k \in 1..Len(order)} = DOMAIN accounts
    /\ Served(Request("LIST", 0, NoHeader, NoBody, NoLookup),
              Response(200, "list", NoObject,
                       [k \in 1..Len(order) |-> serialize(order[k], accounts[order[k]])]))
    /\ UNCHANGED <<accounts, next_id, posted, deleted, latest, raced, workers,
                   vdata, vresult>>

\* The not-found test inverted
get_accounts_Inverted(account_id) ==
    /\ Served(Request("GET", account_id, NoHeader, NoBody,
                      Lookup(find(accounts, account_id), account_id \in deleted, FALSE)),
              IF find(accounts, account_id) THEN Error(404)
              ELSE Response(200, "object", serialize(account_id, NewAccount), <<>>))
    /\ UNCHANGED <<accounts, next_id, posted, deleted, latest, raced, workers,
                   vdata, vresult>>

\* GET /accounts/<id>
get_accounts(account_id) ==
    /\ Served(Request("GET", account_id, NoHeader, NoBody,
                      Lookup(find(accounts, account_id), account_id \in deleted, FALSE)),
              IF ~find(accounts, account_id) THEN Error(404)
              ELSE Response(200, "object",
                            serialize(account_id, accounts[account_id]), <<>>))
    /\ UNCHANGED <<accounts, next_id, posted, deleted, latest, raced, workers,
                   vdata, vresult>>

\* The body validated before the record is looked up
update_account_get_ValidateFirst(w, account_id, account_data) ==
    LET valid == validate_account_data(account_data)
        met == Lookup(find(accounts, account_id), account_id \in deleted,
                      \E v \in Workers : OnRecord(v, account_id))
        req == Request("PUT", account_id, "application/json", account_data, met)
    IN /\ w = FreeWorker
       /\ UNCHANGED <<accounts, next_id, posted, deleted, latest, raced, vdata, vresult>>
       /\ IF valid \notin {"true", "false"}
          THEN Served(req, Error(500)) /\ UNCHANGED workers
          ELSE IF valid = "false"
          THEN Served(req, Error(400)) /\ UNCHANGED workers
          ELSE IF ~find(accounts, account_id)
          THEN Served(req, Error(404)) /\ UNCHANGED workers
          ELSE IF deserialize(accounts[account_id], account_data).error
          THEN Served(req, Error(400)) /\ UNCHANGED workers
          ELSE /\ workers' =
                      Sessions(w, "applied", account_id, account_data,
                               accounts[account_id],
                               deserialize(accounts[account_id], account_data).account)
               /\ UNCHANGED <<request, response, before>>

\* PUT /accounts/<id> up to its write: account = Account.query.get(account_id)
\* and the 404 when there is no row, validate_account_data and its 400,
\* account.deserialize and its 400.  The validation and the assignment work on
\* the request's own data, so no other request can tell them from the lookup.
update_account_get(w, account_id, account_data) ==
    LET valid == validate_account_data(account_data)
        met == Lookup(find(accounts, account_id), account_id \in deleted,
                      \E v \in Workers : OnRecord(v, account_id))
        req == Request("PUT", account_id, "application/json", account_data, met)
    IN /\ w = FreeWorker
       /\ UNCHANGED <<accounts, next_id, posted, deleted, latest, raced, vdata, vresult>>
       /\ IF ~find(accounts, account_id)
          THEN Served(req, Error(404)) /\ UNCHANGED workers
          ELSE IF valid \notin {"true", "false"}
          THEN Served(req, Error(500)) /\ UNCHANGED workers
          ELSE IF valid = "false"
          THEN Served(req, Error(400)) /\ UNCHANGED workers
          ELSE IF deserialize(accounts[account_id], account_data).error
          THEN Served(req, Error(400)) /\ UNCHANGED workers
          ELSE /\ workers' =
                      Sessions(w, "applied", account_id, account_data,
                               accounts[account_id],
                               deserialize(accounts[account_id], account_data).account)
               /\ UNCHANGED <<request, response, before>>

\* db.session.commit() left out
update_account_commit_NoCommit(w) ==
    LET me == workers[w]
    IN /\ me.pc = "applied"
       /\ workers' = [workers EXCEPT ![w] = Idle]
       /\ UNCHANGED <<accounts, next_id, deleted, vdata, vresult>>
       /\ posted' = Without(posted, me.id)
       /\ latest' = IF find(accounts, me.id) THEN With(latest, me.id, me.data) ELSE latest
       /\ raced' = IF me.overlap THEN raced \cup {me.id} ELSE raced \ {me.id}
       /\ Served(Answered(w, "PUT"),
                 Response(200, "object", serialize(me.id, me.account), <<>>))

\* PUT, its write: db.session.commit(), and the 200 with the row as the
\* session holds it, account.serialize().  When another request has deleted
\* the row since it was loaded, the UPDATE matches no row and the session
\* raises StaleDataError, which answers 500; with no changed column there is
\* no UPDATE and the answer is 200.
update_account_commit(w) ==
    LET me == workers[w]
    IN /\ me.pc = "applied"
       /\ workers' = [workers EXCEPT ![w] = Idle]
       /\ UNCHANGED <<next_id, deleted, vdata, vresult>>
       /\ posted' = Without(posted, me.id)
       /\ IF ~find(accounts, me.id)
          THEN /\ UNCHANGED <<accounts, latest, raced>>
               /\ Served(Answered(w, "PUT"),
                         IF me.account = me.loaded
                         THEN Response(200, "object", serialize(me.id, me.account), <<>>)
                         ELSE Error(500))
          ELSE /\ accounts' = commit_update(accounts, me.id, me.loaded, me.account)
               /\ latest' = With(latest, me.id, me.data)
               /\ raced' = IF me.overlap THEN raced \cup {me.id} ELSE raced \ {me.id}
               /\ Served(Answered(w, "PUT"),
                         Response(200, "object", serialize(me.id, me.account), <<>>))

\* DELETE /accounts/<id>, first round trip: account = Account.query.get(account_id),
\* and the 404 when there is no row
delete_account_get(w, account_id) ==
    /\ w = FreeWorker
    /\ UNCHANGED <<accounts, next_id, posted, deleted, latest, raced, vdata, vresult>>
    /\ IF ~find(accounts, account_id)
       THEN /\ Served(Request("DELETE", account_id, NoHeader, NoBody,
                              Lookup(FALSE, account_id \in deleted,
                                     \E v \in Workers : OnRecord(v, account_id))),
                      Error(404))
            /\ UNCHANGED workers
       ELSE /\ workers' = Sessions(w, "found", account_id, NoBody, NewAccount, NewAccount)
            /\ UNCHANGED <<request, response, before>>

\* db.session.commit() left out
delete_account_commit_NoCommit(w) ==
    LET me == workers[w]
    IN /\ me.pc = "found"
       /\ workers' = [workers EXCEPT ![w] = Idle]
       /\ UNCHANGED <<accounts, next_id, vdata, vresult>>
       /\ posted' = Without(posted, me.id)
       /\ deleted' = deleted \cup {me.id}
       /\ latest' = Without(latest, me.id)
       /\ raced' = raced \ {me.id}
       /\ Served(Answered(w, "DELETE"), Response(204, "empty", NoObject, <<>>))

\* DELETE, second round trip: db.session.delete(account), db.session.commit(),
\* and the 204
delete_account_commit(w) ==
    LET me == workers[w]
    IN /\ me.pc = "found"
       /\ workers' = [workers EXCEPT ![w] = Idle]
       /\ UNCHANGED <<next_id, vdata, vresult>>
       /\ posted' = Without(posted, me.id)
       /\ accounts' = commit_delete(accounts, me.id)
       /\ deleted' = deleted \cup {me.id}
       /\ latest' = Without(latest, me.id)
       /\ raced' = raced \ {me.id}
       /\ Served(Answered(w, "DELETE"), Response(204, "empty", NoObject, <<>>))

\* The orders a query without ORDER BY may return the rows in
Orders == UNION {[1..n -> 1..MaxAccounts] : n \in 0..MaxAccounts}

\* The POST requests: every body as JSON, and a body that meets the rules and
\* one that does not under each other header
Posts ==
    [content_type : {"application/json"}, data : Bodies]
    \cup [content_type : ContentTypes \ {"application/json"},
          data : {Body(Absent, Ann, AnnMail, Road, Absent, Absent),
                  Body(Absent, Num(1234), BadMail, Absent, Absent, Absent)}]

\* One step of one request, with one worker serving PUT and DELETE
Next ==
    \/ \E post \in Posts : create_accounts(post.content_type, post.data)
    \/ \E order \in Orders : list_accounts(order)
    \/ \E id \in PathIds : get_accounts(id)
    \/ \E id \in PathIds, data \in Bodies : update_account_get("r1", id, data)
    \/ update_account_commit("r1")
    \/ \E id \in PathIds : delete_account_get("r1", id)
    \/ delete_account_commit("r1")

Spec == Init /\ [][Next]_vars

\* One step of one request, with every worker serving PUT and DELETE
ConcNext ==
    \/ \E data \in ConcPosts : create_accounts("application/json", data)
    \/ \E order \in Orders : list_accounts(order)
    \/ \E id \in PathIds : get_accounts(id)
    \/ \E w \in Workers, id \in PathIds, data \in ConcPuts :
           update_account_get(w, id, data)
    \/ \E w \in Workers : update_account_commit(w)
    \/ \E w \in Workers, id \in PathIds : delete_account_get(w, id)
    \/ \E w \in Workers : delete_account_commit(w)

ConcSpec == Init /\ [][ConcNext]_vars

(***************************************************************************)
(* validate_account_data on its own: every mapping of these values          *)
(***************************************************************************)
NameValues == {Absent, Null, Num(1234), Ann}
EmailValues ==
    {Absent, Null, Num(5), AnnMail, BobMail, LineMail, BadMail, NoDotMail,
     Str(<<"@", "b", ".", "c">>), Str(<<"a", "@", "b", ".", "c", "-">>),
     Str(<<"a", " ", "b", "@", "c", ".", "d">>), Str(<<>>),
     Str(<<"é", "@", "ü", ".", "c", "²">>), Str(<<"a", "@", "b", ".", "×">>)}
AddressValues == {Absent, Null, Num(1), Road}
PhoneValues == {Absent, Null, Num(551), Phone}
DateValues ==
    {Absent, Null, Num(20221231), LeapDay, YearEnd, NoSuchDay, ShortDate,
     BasicDate, WeekDate, PaddedDate, Str(<<>>),
     Str(<<"2", "0", "2", "2", "1", "2", "3", "1", "é">>),
     Str(<<"2", "0", "2", "2", "1", "2", "3", "1", "é", "é">>),
     Str(<<"2", "0", "2", "2", "1", "2", "3", "1", " ">>),
     Str(<<"2", "0", "2", "2", "1", "2", "3", "1", " ", " ">>)}

Mappings ==
    { Body(Absent, n, e, a, p, d) :
        n \in NameValues, e \in EmailValues, a \in AddressValues,
        p \in PhoneValues, d \in DateValues }

ValidateInit == Started /\ vdata \in Mappings /\ vresult = "pending"

Validate ==
    /\ vresult = "pending"
    /\ vresult' = validate_account_data(vdata)
    /\ UNCHANGED <<accounts, next_id, request, response, before, posted, deleted, latest,
                   raced, workers, vdata>>

ValidateSpec == ValidateInit /\ [][Validate]_vars

(***************************************************************************)
(* Properties of the handlers                                              *)
(***************************************************************************)
FieldKeys == {"name", "email", "address", "phone_number", "date_joined"}

\* The JSON object agrees with the body on every field the body holds
AgreesWith(object, data) ==
    \A k \in FieldKeys : Has(data, k) => object[k] = data[k]

\* The JSON object holds the body's fields and, for a key the body lacks,
\* the default of the field
HoldsExactly(object, data) ==
    \A k \in FieldKeys :
        object[k] = IF Has(data, k) THEN data[k]
                    ELSE IF k = "date_joined" THEN Str(isoformat(Today))
                    ELSE Null

\* Every row but the one under id is as the answering step found it
OthersUntouched(id) ==
    \A j \in (DOMAIN before \cup DOMAIN accounts) \ {id} :
        j \in DOMAIN before /\ j \in DOMAIN accounts /\ accounts[j] = before[j]

\* Some worker is in the middle of a request on another id
BusyElsewhere(id) == \E v \in Workers : workers[v].pc # "idle" /\ workers[v].id # id

\* C1: a POST of a body that meets 4.1 answers 201 with a new integer id, and
\* a GET of that id, before any PUT or DELETE names it, answers 200 with the
\* posted name, email, address, phone_number and date_joined.
C1_ReadAfterWrite ==
    /\ ( /\ request.method = "POST"
         /\ request.content_type = "application/json"
         /\ MeetsRules(request.data) )
       => /\ response.status = 201
          /\ response.object.id.t = "num"
          /\ response.object.id.n \notin DOMAIN before
          /\ response.object.id.n \in DOMAIN accounts
          /\ response.object.id.n \in DOMAIN posted
    /\ (request.method = "GET" /\ request.id \in DOMAIN posted)
       => /\ response.status = 200
          /\ response.object.id = Num(request.id)
          /\ AgreesWith(response.object, posted[request.id])

C1_Witness ==
    /\ request.method = "GET"
    /\ request.id \in DOMAIN posted
    /\ Has(posted[request.id], "date_joined")
    /\ Has(posted[request.id], "phone_number")
    /\ response.status = 200
    /\ Cardinality(DOMAIN accounts) = 2
    /\ BusyElsewhere(request.id)

\* C2: a POST with Content-Type application/json whose body breaks a rule of
\* 4.1 answers 400 and leaves the set of stored accounts as it was.
C2_BadPostRejected ==
    ( /\ request.method = "POST"
      /\ request.content_type = "application/json"
      /\ ~MeetsRules(request.data) )
    => response.status = 400 /\ accounts = before

\* C3: after any sequence of POST, PUT, DELETE and GET requests every stored
\* account has name, email and address as strings, and its email matches the
\* pattern.
C3_StoreInvariant ==
    \A id \in DOMAIN accounts :
        /\ IsStr(accounts[id].name)
        /\ IsStr(accounts[id].email)
        /\ IsStr(accounts[id].address)
        /\ MatchesPattern(accounts[id].email.s)

\* C4: a PUT on an existing record whose body breaks a rule of 4.1 answers 400
\* and leaves that record and every other record as they were.
C4_BadPutRejected ==
    ( /\ request.method = "PUT"
      /\ request.found
      /\ ~MeetsRules(request.data) )
    => response.status = 400 /\ accounts = before

C4_Witness ==
    /\ request.method = "PUT"
    /\ request.found
    /\ ~RuleName(request.data)
    /\ ~RuleEmail(request.data)
    /\ response.status = 400
    /\ Cardinality(DOMAIN accounts) = 2

\* C5: a PUT on an existing record whose body meets 4.1, with no other request
\* on that record in flight while it is served, answers 200; the record then
\* holds the body's name, email, address, phone_number and date_joined under
\* the same id, whatever "id" the body carries; no other record changes and
\* the number of records stays.
C5_PutReplaces ==
    ( /\ request.method = "PUT"
      /\ request.found
      /\ ~request.overlap
      /\ MeetsRules(request.data) )
    => /\ response.status = 200
       /\ request.id \in DOMAIN accounts
       /\ AgreesWith(serialize(request.id, accounts[request.id]), request.data)
       /\ response.object.id = Num(request.id)
       /\ OthersUntouched(request.id)
       /\ Cardinality(DOMAIN accounts) = Cardinality(DOMAIN before)

\* Such a PUT, answered while another worker is serving a request on the
\* other record
C5_Witness ==
    /\ request.method = "PUT"
    /\ request.found
    /\ ~request.overlap
    /\ response.status = 200
    /\ Has(request.data, "id")
    /\ request.data["id"] # Num(request.id)
    /\ accounts[request.id] # before[request.id]
    /\ Cardinality(DOMAIN accounts) = 2
    /\ BusyElsewhere(request.id)

\* C6: a DELETE of an existing id answers 204 with an empty body and removes
\* exactly that record; an id once deleted is never stored again, and every
\* GET or DELETE that looks the id up after that answers 404.
C6_DeleteTwice ==
    /\ (request.method = "DELETE" /\ request.found)
       => /\ response.status = 204
          /\ response.kind = "empty"
          /\ DOMAIN accounts = DOMAIN before \ {request.id}
          /\ OthersUntouched(request.id)
    /\ \A id \in deleted : id \notin DOMAIN accounts
    /\ (request.method \in {"GET", "DELETE"} /\ request.gone)
       => response.status = 404

C6_Witness ==
    /\ request.method = "DELETE"
    /\ request.gone
    /\ response.status = 404
    /\ DOMAIN accounts # {}

\* C7: a GET, DELETE or PUT of an id that is not stored when the handler looks
\* it up answers 404 and leaves the store as it was; for PUT whether or not
\* the body is valid.
C7_UnknownId ==
    ( /\ request.method \in {"GET", "DELETE", "PUT"}
      /\ ~request.found )
    => response.status = 404 /\ accounts = before

C7_Witness ==
    /\ request.method = "PUT"
    /\ ~request.found
    /\ ~MeetsRules(request.data)
    /\ response.status = 404
    /\ DOMAIN accounts # {}

\* C8: a POST whose Content-Type header is absent or is not exactly
\* application/json answers 415 whatever its body, and creates no record.
C8_WrongMediaType ==
    (request.method = "POST" /\ request.content_type # "application/json")
    => response.status = 415 /\ accounts = before

C8_Witness ==
    /\ request.method = "POST"
    /\ request.content_type = "application/json; charset=utf-8"
    /\ MeetsRules(request.data)
    /\ response.status = 415

(***************************************************************************)
(* Properties of validate_account_data                                     *)
(***************************************************************************)
\* C9: validate returns true or false for every mapping and never raises; it
\* returns true exactly when name, email and address are strings, email
\* matches the pattern, phone_number is absent or a string, and date_joined
\* is absent or a string that is a real YYYY-MM-DD date.
C9_ValidateExact ==
    vresult # "pending" =>
        /\ vresult \in {"true", "false"}
        /\ vresult = "true" <=> MeetsRules(vdata)

(***************************************************************************)
(* Properties of concurrent PUT requests                                   *)
(***************************************************************************)
\* C10: a PUT with a valid body that overlapped another PUT on the same
\* existing record answers 200, and once no request on the record is in
\* flight the record holds in every field the body of the PUT that committed
\* last; rows under other ids are as they were.
C10_LastCommitWins ==
    /\ ( /\ request.method = "PUT"
         /\ request.found
         /\ request.overlap
         /\ MeetsRules(request.data)
         /\ request.id \notin deleted )
       => /\ response.status = 200
          /\ OthersUntouched(request.id)
          /\ (\A v \in Workers : ~OnRecord(v, request.id))
             => HoldsExactly(serialize(request.id, accounts[request.id]), request.data)

(***************************************************************************)
(* Properties of the list                                                  *)
(***************************************************************************)
\* The entries of a list response that carry the id
EntriesOf(list, id) == {k \in 1..Len(list) : list[k].id = Num(id)}

\* C11: GET /accounts answers 200 with a list that holds exactly one entry for
\* each account in the store and nothing else: the ids are those a 201 POST
\* created and no 204 DELETE has removed since, each entry is the serialized
\* row and, unless the PUT that wrote the row last overlapped another request
\* on it, carries the fields of the id's latest 200 PUT, or of its POST when
\* there was none; with no account the list is empty; the store is as the
\* request found it.
C11_ListAll ==
    request.method = "LIST" =>
        /\ response.status = 200
        /\ response.kind = "list"
        /\ accounts = before
        /\ DOMAIN accounts = DOMAIN latest
        /\ DOMAIN latest \cap deleted = {}
        /\ Len(response.list) = Cardinality(DOMAIN latest)
        /\ \A id \in DOMAIN latest :
               /\ Cardinality(EntriesOf(response.list, id)) = 1
               /\ \A k \in EntriesOf(response.list, id) :
                      /\ response.list[k] = serialize(id, accounts[id])
                      /\ id \notin raced => AgreesWith(response.list[k], latest[id])
        /\ \A k \in 1..Len(response.list) :
               /\ response.list[k].id.t = "num"
               /\ response.list[k].id.n \in DOMAIN latest
        /\ (DOMAIN latest = {} => response.list = <<>>)

\* A list of one account, after a DELETE removed another and a PUT replaced
\* the fields of the one that is left
C11_Witness ==
    /\ request.method = "LIST"
    /\ response.status = 200
    /\ Len(response.list) = 1
    /\ deleted # {}
    /\ \E id \in DOMAIN latest :
           /\ id \notin DOMAIN posted
           /\ id \notin raced
           /\ response.list[1].id = Num(id)
           /\ Has(latest[id], "phone_number")

====
